---- MODULE Spec2Model ----
(***************************************************************************)
(* Request-observability layer of example-app/app.py: the HTTP middleware  *)
(* observability_middleware, the endpoints it wraps, the three ClickHouse  *)
(* tables it writes (metrics, logs, traces), the Prometheus registry and   *)
(* the correlated query endpoint GET /trace/{trace_id}.                    *)
(*                                                                         *)
(* Scheduling: uvicorn runs one event loop; each request is one task. The  *)
(* middleware and the endpoints call the ClickHouse client and time.sleep  *)
(* synchronously, so a task yields only at `await call_next(request)`.     *)
(* A request therefore runs as three atomic steps: Enter (lines 75-86),    *)
(* Handle (the endpoint, inside call_next) and Exit (lines 90-155).        *)
(* Time is counted in whole seconds. The process serves requests once     *)
(* startup_event has run init_tables() (lines 23-71); SpecBoot starts and  *)
(* stops the process over databases in any state.                          *)
(***************************************************************************)
EXTENDS Integers, Sequences, FiniteSets, TLC

\* ------------------------------------------------------------- bounds
NReq == 2
MaxClock == 1
MaxStarts == 2

Req == 1..NReq

VARIABLES
    logs,              \* table logs, rows in insertion order
    metrics,           \* table metrics
    traces,            \* table traces
    REQUEST_COUNT,     \* Counter http_requests_total: samples per label set
    REQUEST_DURATION,  \* Histogram http_request_duration_seconds
    now,               \* the wall clock (time.time(), datetime.now())
    uuids,             \* number of uuid4() values drawn so far
    pc,                \* per request: "idle", "awaiting", "returned", "done"
    request,           \* per request: method, path parts, X-Trace-ID header
    trace_id,          \* per request: local variable trace_id (line 75)
    start_time,        \* per request: local variable start_time (line 76)
    result,            \* per request: what call_next produced
    delivered,         \* per request: what the framework got from the middleware
    issued,            \* per request: the client.insert calls made, in order
    queried,           \* per request: the client.query calls made, in order
    schema,            \* per table name: what the database holds under it
    app,               \* the process: "down", "failed" (startup raised), "up"
    commands,          \* the client.command calls of the last init_tables()
    starts             \* number of startups that completed

\* the variables of the startup
startup == <<schema, app, commands, starts>>

vars == <<logs, metrics, traces, REQUEST_COUNT, REQUEST_DURATION, now, uuids,
          pc, request, trace_id, start_time, result, delivered, issued, queried,
          schema, app, commands, starts>>

\* ------------------------------------------------------------- values
None == "<none>"
NoHeader == "<absent>"
Unknown == "unknown"
Malformed == "not-a-uuid"
Service == "example-app"

\* str(uuid.uuid4()): the n-th value drawn; distinct draws give distinct values
Uuid(n) == "uuid-" \o ToString(n)

EpRoot == "/"
EpUser == "/users/{user_id}"
EpSearch == "/search"
EpMetrics == "/metrics"
EpTrace == "/trace/{trace_id}"

\* request.url.path
UrlPath(rq) ==
    CASE rq.ep = EpRoot -> "/"
      [] rq.ep = EpUser -> "/users/" \o rq.arg
      [] rq.ep = EpSearch -> "/search"
      [] rq.ep = EpMetrics -> "/metrics"
      [] rq.ep = EpTrace -> "/trace/" \o rq.arg

\* a router that lets an empty path parameter through
RouteMatchesEmpty(rq) == TRUE

\* The router: a path parameter matches one non-empty segment, so
\* "/trace/" matches no route and the framework answers 404.
RouteMatches(rq) == rq.ep = EpTrace => rq.arg # ""

\* request.headers.get("X-Trace-ID", "unknown")
HeaderTraceId(rq) == IF rq.hdr = NoHeader THEN Unknown ELSE rq.hdr

\* ------------------------------------------------------------- rows
LogRow(ts, tid, level, message, extra) ==
    [timestamp |-> ts, trace_id |-> tid, level |-> level, message |-> message,
     service |-> Service, extra_fields |-> extra]

MetricRow(ts, tid, name, value, labels) ==
    [timestamp |-> ts, trace_id |-> tid, metric_name |-> name, value |-> value,
     labels |-> labels]

TraceRow(ts, tid, span, op, dur, tags) ==
    [timestamp |-> ts, trace_id |-> tid, span_id |-> span, parent_span_id |-> "",
     operation_name |-> op, duration_ms |-> dur, service_name |-> Service,
     tags |-> tags]

\* json.dumps of the dicts the middleware builds
LabelsJson(rq, status) ==
    "{\"method\": \"" \o rq.method \o "\", \"endpoint\": \"" \o UrlPath(rq)
        \o "\", \"status\": " \o ToString(status) \o "}"

StartJson(rq) ==
    "{\"method\": \"" \o rq.method \o "\", \"path\": \"" \o UrlPath(rq) \o "\"}"

CompletedJson(rq, status, duration) ==
    "{\"method\": \"" \o rq.method \o "\", \"path\": \"" \o UrlPath(rq)
        \o "\", \"status_code\": " \o ToString(status)
        \o ", \"duration\": " \o ToString(duration) \o "}"

FailedJson(err, duration) ==
    "{\"error\": \"" \o err \o "\", \"duration\": " \o ToString(duration) \o "}"

\* one client.insert call as the request's history keeps it
Call(table, row, kind, ok) ==
    [table |-> table, trace_id |-> row.trace_id, kind |-> kind, ok |-> ok, row |-> row]

\* ------------------------------------------------------------- results
Response(status, body) ==
    [kind |-> "response", status |-> status, body |-> body, xtrace |-> NoHeader,
     error |-> ""]

Raised(err) ==
    [kind |-> "exception", status |-> 0, body |-> [json |-> ""], xtrace |-> NoHeader,
     error |-> err]

NoResult ==
    [kind |-> None, status |-> 0, body |-> [json |-> ""], xtrace |-> NoHeader,
     error |-> ""]

StatusOK == 200
StatusNotFound == 404

\* ------------------------------------------------------------- construction
\* the names init_tables() creates, in the order of its three commands
TableNames == <<"metrics", "logs", "traces">>

\* what a database holds under a name: nothing, the table as init_tables()
\* defines it, or a table of some other definition
Absent == "absent"
Created == "created"
Foreign == "foreign"

\* no request has arrived, nothing is registered
NoRequests ==
    /\ REQUEST_COUNT = [l \in {} |-> 0]
    /\ REQUEST_DURATION = [count |-> 0, sum |-> 0]
    /\ now = 0
    /\ uuids = 0
    /\ pc = [r \in Req |-> "idle"]
    /\ request = [r \in Req |-> [method |-> "GET", ep |-> EpRoot, arg |-> "", hdr |-> NoHeader]]
    /\ trace_id = [r \in Req |-> None]
    /\ start_time = [r \in Req |-> 0]
    /\ result = [r \in Req |-> NoResult]
    /\ delivered = [r \in Req |-> NoResult]
    /\ issued = [r \in Req |-> <<>>]
    /\ queried = [r \in Req |-> <<>>]

\* a row an earlier run of the program left in the table `name`
EarlierRow(name) ==
    CASE name = "metrics" -> MetricRow(0, "earlier-run", "http_requests_total", 1, "{}")
      [] name = "logs" -> LogRow(0, "earlier-run", "INFO", "Starting request: GET /", "{}")
      [] name = "traces" -> TraceRow(0, "earlier-run", "earlier-span", "GET /", 0, "{}")

\* the module is imported (client, app, registry built); startup_event has not
\* run yet. The database is a fresh one, or the one an earlier run of the
\* program left: its three tables, a row in each.
Init ==
    /\ schema \in {[t \in {"metrics", "logs", "traces"} |-> Absent],
                   [t \in {"metrics", "logs", "traces"} |-> Created]}
    /\ metrics = IF schema["metrics"] = Absent THEN <<>> ELSE <<EarlierRow("metrics")>>
    /\ logs = IF schema["logs"] = Absent THEN <<>> ELSE <<EarlierRow("logs")>>
    /\ traces = IF schema["traces"] = Absent THEN <<>> ELSE <<EarlierRow("traces")>>
    /\ app = "down"
    /\ commands = <<>>
    /\ starts = 0
    /\ NoRequests

\* ------------------------------------------------------------- the store
\* client.insert raises when ClickHouse does not accept the write
StoreError(site) == "StoreError: " \o site

\* `table` after the accepted inserts `calls` (records [table, row, kind]) into `name`
Inserted(table, name, calls) ==
    LET mine == SelectSeq(calls, LAMBDA c: c.table = name)
    IN  table \o [i \in 1..Len(mine) |-> mine[i].row]

\* the history entries of `calls`, the one at position `failed` (if any) refused
Calls(calls, failed) ==
    [i \in 1..Len(calls) |-> Call(calls[i].table, calls[i].row, calls[i].kind, i # failed)]

\* the query, were its WHERE clause left out
SelectAll(table, id) == table

\* SELECT * FROM <table> WHERE trace_id = %s
Select(table, id) == SelectSeq(table, LAMBDA row: row.trace_id = id)

\* the query has no ORDER BY: the rows come back in an order the server chooses
Orders(s) ==
    {[i \in 1..Len(s) |-> s[p[i]]] :
        p \in {q \in [1..Len(s) -> 1..Len(s)] : \A i, j \in 1..Len(s) : q[i] = q[j] => i = j}}

\* ------------------------------------------------------------- startup
\* the database as init_tables() finds it: per name a definition and its rows
Database ==
    [metrics |-> [def |-> schema["metrics"], rows |-> metrics],
     logs |-> [def |-> schema["logs"], rows |-> logs],
     traces |-> [def |-> schema["traces"], rows |-> traces]]

\* CREATE TABLE name (...): an existing name is an error
CreateTable(t) ==
    IF t.def = Absent
    THEN [def |-> Created, rows |-> <<>>, error |-> ""]
    ELSE [def |-> t.def, rows |-> t.rows, error |-> "table already exists"]

\* CREATE OR REPLACE TABLE name (...): an existing table is dropped and made anew
CreateOrReplaceTable(t) == [def |-> Created, rows |-> <<>>, error |-> ""]

\* CREATE TABLE IF NOT EXISTS name (...): an existing name is left as it is
CreateTableIfNotExists(t) ==
    IF t.def = Absent
    THEN [def |-> Created, rows |-> <<>>, error |-> ""]
    ELSE [def |-> t.def, rows |-> t.rows, error |-> ""]

\* lines 23-62 from the i-th command on; the command at position `failed` (if
\* any) is refused by the server. The first command that raises ends the call.
RECURSIVE init_tables_from(_, _, _)
init_tables_from(run, i, failed) ==
    IF i > Len(TableNames)
    THEN run
    ELSE LET name == TableNames[i]
             made == CreateTableIfNotExists(run.db[name])
             error == IF i = failed THEN StoreError("CREATE TABLE " \o name) ELSE made.error
             call == [table |-> name, ok |-> i # failed]
         IN  IF error # ""
             THEN [db |-> run.db, commands |-> Append(run.commands, call), error |-> error]
             ELSE init_tables_from(
                      [db |-> [run.db EXCEPT ![name] = [def |-> made.def, rows |-> made.rows]],
                       commands |-> Append(run.commands, call),
                       error |-> ""],
                      i + 1, failed)

init_tables(db, failed) == init_tables_from([db |-> db, commands |-> <<>>, error |-> ""], 1, failed)

\* lines 68-71: the process starts and runs init_tables(); an exception of it
\* ends the startup, and the process can be started again
startup_event ==
    /\ app # "up"
    /\ starts < MaxStarts
    /\ \E failed \in 0..Len(TableNames) :
        LET run == init_tables(Database, failed)
        IN  /\ schema' = [t \in DOMAIN schema |-> run.db[t].def]
            /\ metrics' = run.db["metrics"].rows
            /\ logs' = run.db["logs"].rows
            /\ traces' = run.db["traces"].rows
            /\ commands' = run.commands
            /\ app' = IF run.error = "" THEN "up" ELSE "failed"
            /\ starts' = IF run.error = "" THEN starts + 1 ELSE starts
    /\ UNCHANGED <<REQUEST_COUNT, REQUEST_DURATION, now, uuids, pc, request, trace_id,
                   start_time, result, delivered, issued, queried>>

\* the process is stopped while it serves no request; the database stays
shutdown ==
    /\ app = "up"
    /\ \A r \in Req : pc[r] \in {"idle", "done"}
    /\ app' = "down"
    /\ UNCHANGED <<logs, metrics, traces, schema, commands, starts>>
    /\ UNCHANGED <<REQUEST_COUNT, REQUEST_DURATION, now, uuids, pc, request, trace_id,
                   start_time, result, delivered, issued, queried>>

\* ------------------------------------------------------------- requests
\* the trace ids clients have read from the X-Trace-ID header of a response
KnownIds == {delivered[q].xtrace : q \in {x \in Req : delivered[x].xtrace # NoHeader}}

Headers == {NoHeader} \cup KnownIds

\* The requests clients send. X-Trace-ID is varied on the endpoints that read
\* it (root, get_user, search); elsewhere the code never looks at it.
Requests ==
    [method : {"GET"}, ep : {EpRoot}, arg : {""}, hdr : Headers]
    \cup [method : {"GET"}, ep : {EpUser}, arg : {"42"}, hdr : Headers]
    \cup [method : {"GET"}, ep : {EpSearch}, arg : {"tla"}, hdr : Headers]
    \cup [method : {"GET"}, ep : {EpMetrics}, arg : {""}, hdr : {NoHeader}]
    \cup [method : {"GET"}, ep : {EpTrace}, arg : {"", Unknown, Malformed} \cup KnownIds,
          hdr : {NoHeader}]

\* ------------------------------------------------------------- middleware entry
\* the start log, were it stamped when a buffered writer flushes it
StartRowStampedLate(rq, tid, ts) ==
    LogRow(ts + 1, tid, "INFO", "Starting request: " \o rq.method \o " " \o UrlPath(rq),
           StartJson(rq))

\* lines 79-86
StartRow(rq, tid, ts) ==
    LogRow(ts, tid, "INFO", "Starting request: " \o rq.method \o " " \o UrlPath(rq),
           StartJson(rq))

\* lines 75-86: new trace id, start time, start log; then await call_next.
\* The insert is outside the try: if it raises, the middleware raises.
\* Requests are numbered in the order they arrive.
Enter(r) ==
    /\ app = "up"
    /\ pc[r] = "idle"
    /\ \A q \in Req : q < r => pc[q] # "idle"
    /\ \E rq \in Requests, ok \in BOOLEAN :
        LET tid == Uuid(uuids + 1)
            row == StartRow(rq, tid, now)
        IN  /\ request' = [request EXCEPT ![r] = rq]
            /\ uuids' = uuids + 1
            /\ trace_id' = [trace_id EXCEPT ![r] = tid]
            /\ start_time' = [start_time EXCEPT ![r] = now]
            /\ issued' = [issued EXCEPT ![r] = Append(@, Call("logs", row, "start", ok))]
            /\ IF ok
               THEN /\ logs' = Append(logs, row)
                    /\ pc' = [pc EXCEPT ![r] = "awaiting"]
                    /\ delivered' = delivered
               ELSE /\ logs' = logs
                    /\ pc' = [pc EXCEPT ![r] = "done"]
                    /\ delivered' = [delivered EXCEPT ![r] = Raised(StoreError("start log"))]
    /\ UNCHANGED startup
    /\ UNCHANGED <<metrics, traces, REQUEST_COUNT, REQUEST_DURATION, now, result, queried>>


\* ------------------------------------------------------------- endpoints
\* Each endpoint runs inside call_next while the middleware awaits it. Time
\* passes in the endpoints that sleep (get_user, search) and in the middleware's
\* exit; the other steps are short against the clock's unit.
Elapsed == {e \in {0, 1} : now + e <= MaxClock}

Returns(r, res) ==
    /\ result' = [result EXCEPT ![r] = res]
    /\ pc' = [pc EXCEPT ![r] = "returned"]

\* no route matches the path: the framework answers 404 Not Found
not_found(r) ==
    /\ pc[r] = "awaiting"
    /\ ~RouteMatches(request[r])
    /\ Returns(r, Response(StatusNotFound, [json |-> "{\"detail\": \"Not Found\"}"]))
    /\ UNCHANGED startup
    /\ UNCHANGED <<now, logs, metrics, traces, REQUEST_COUNT, REQUEST_DURATION, uuids,
                   request, trace_id, start_time, delivered, issued, queried>>

\* lines 157-159
root(r) ==
    /\ pc[r] = "awaiting"
    /\ request[r].ep = EpRoot
    /\ Returns(r, Response(StatusOK,
            [json |-> "{\"message\": \"Hello, Observability!\", \"trace_id\": \""
                        \o HeaderTraceId(request[r]) \o "\"}"]))
    /\ UNCHANGED startup
    /\ UNCHANGED <<now, logs, metrics, traces, REQUEST_COUNT, REQUEST_DURATION, uuids,
                   request, trace_id, start_time, delivered, issued, queried>>

\* the endpoint's own log row and reply: get_user (lines 166-175), search (182-191)
EndpointLog(rq, ts) ==
    IF rq.ep = EpUser
    THEN LogRow(ts, HeaderTraceId(rq), "INFO", "Fetching user " \o rq.arg,
                "{\"user_id\": " \o rq.arg \o "}")
    ELSE LogRow(ts, HeaderTraceId(rq), "INFO", "Searching for: " \o rq.arg,
                "{\"query\": \"" \o rq.arg \o "\"}")

EndpointReply(rq) ==
    IF rq.ep = EpUser
    THEN [json |-> "{\"user_id\": " \o rq.arg \o ", \"name\": \"User " \o rq.arg
                     \o "\", \"trace_id\": \"" \o HeaderTraceId(rq) \o "\"}"]
    ELSE [json |-> "{\"results\": [\"Result 1 for " \o rq.arg \o "\", \"Result 2 for "
                     \o rq.arg \o "\"], \"trace_id\": \"" \o HeaderTraceId(rq) \o "\"}"]

\* sleep, insert one log row, reply; a refused insert raises out of the endpoint
LoggingEndpoint(r) ==
    \E e \in Elapsed, ok \in BOOLEAN :
        LET row == EndpointLog(request[r], now + e)
        IN  /\ now' = now + e
            /\ issued' = [issued EXCEPT ![r] = Append(@, Call("logs", row, "endpoint", ok))]
            /\ logs' = IF ok THEN Append(logs, row) ELSE logs
            /\ Returns(r, IF ok THEN Response(StatusOK, EndpointReply(request[r]))
                                ELSE Raised(StoreError("endpoint log")))

\* lines 161-175
get_user(r) ==
    /\ pc[r] = "awaiting"
    /\ request[r].ep = EpUser
    /\ LoggingEndpoint(r)
    /\ UNCHANGED startup
    /\ UNCHANGED <<metrics, traces, REQUEST_COUNT, REQUEST_DURATION, uuids,
                   request, trace_id, start_time, delivered, queried>>

\* lines 177-191
search(r) ==
    /\ pc[r] = "awaiting"
    /\ request[r].ep = EpSearch
    /\ LoggingEndpoint(r)
    /\ UNCHANGED startup
    /\ UNCHANGED <<metrics, traces, REQUEST_COUNT, REQUEST_DURATION, uuids,
                   request, trace_id, start_time, delivered, queried>>

\* generate_latest(): the registry's two families as they stand
generate_latest ==
    [http_requests_total |-> REQUEST_COUNT,
     http_request_duration_seconds |-> REQUEST_DURATION]

\* lines 193-195
metrics_endpoint(r) ==
    /\ pc[r] = "awaiting"
    /\ request[r].ep = EpMetrics
    /\ Returns(r, Response(StatusOK, [text |-> generate_latest]))
    /\ UNCHANGED startup
    /\ UNCHANGED <<now, logs, metrics, traces, REQUEST_COUNT, REQUEST_DURATION, uuids,
                   request, trace_id, start_time, delivered, issued, queried>>

\* lines 197-209: three queries in turn, no check of trace_id before them;
\* a query the store does not answer raises out of the endpoint
QueryTables == <<"metrics", "logs", "traces">>

\* the client.query calls made when the one at `failed` raises (0: none does)
Queries(id, failed) ==
    [i \in 1..(IF failed = 0 THEN Len(QueryTables) ELSE failed) |->
        [table |-> QueryTables[i], trace_id |-> id, ok |-> i # failed]]

\* the reply, were an id without rows answered 404
TraceReplyOr404(id, metrics_data, logs_data, traces_data) ==
    IF metrics_data = <<>> /\ logs_data = <<>> /\ traces_data = <<>>
    THEN Response(StatusNotFound, [json |-> "{\"detail\": \"Not Found\"}"])
    ELSE Response(StatusOK, [trace_id |-> id, metrics |-> metrics_data,
                             logs |-> logs_data, traces |-> traces_data])

\* lines 204-209: the reply, whatever the three row lists hold
TraceReply(id, metrics_data, logs_data, traces_data) ==
    Response(StatusOK, [trace_id |-> id, metrics |-> metrics_data,
                        logs |-> logs_data, traces |-> traces_data])

get_trace_data(r) ==
    /\ pc[r] = "awaiting"
    /\ request[r].ep = EpTrace
    /\ RouteMatches(request[r])
    /\ LET id == request[r].arg
       IN  \E failed \in 0..Len(QueryTables) :
            /\ queried' = [queried EXCEPT ![r] = Queries(id, failed)]
            /\ IF failed = 0
               THEN \E metrics_data \in Orders(Select(metrics, id)),
                       logs_data \in Orders(Select(logs, id)),
                       traces_data \in Orders(Select(traces, id)) :
                        Returns(r, TraceReply(id, metrics_data, logs_data, traces_data))
               ELSE Returns(r, Raised(StoreError("query " \o QueryTables[failed])))
    /\ UNCHANGED startup
    /\ UNCHANGED <<now, logs, metrics, traces, REQUEST_COUNT, REQUEST_DURATION, uuids,
                   request, trace_id, start_time, delivered, issued>>

\* The task is cancelled while it awaits call_next (line 89): CancelledError is
\* a BaseException, `except Exception` (line 145) does not catch it.
Cancel(r) ==
    /\ pc[r] = "awaiting"
    /\ result' = [result EXCEPT ![r] = [Raised("CancelledError") EXCEPT !.kind = "cancelled"]]
    /\ delivered' = [delivered EXCEPT ![r] = [Raised("CancelledError") EXCEPT !.kind = "cancelled"]]
    /\ pc' = [pc EXCEPT ![r] = "done"]
    /\ UNCHANGED startup
    /\ UNCHANGED <<logs, metrics, traces, REQUEST_COUNT, REQUEST_DURATION, now, uuids,
                   request, trace_id, start_time, issued, queried>>


\* ------------------------------------------------------------- middleware exit
\* the success path, were the span's duration left in seconds
SuccessInsertsInSeconds(rq, tid, status, duration, ts, span) ==
    << [table |-> "metrics", kind |-> "count",
        row |-> MetricRow(ts, tid, "http_requests_total", 1, LabelsJson(rq, status))],
       [table |-> "metrics", kind |-> "duration",
        row |-> MetricRow(ts, tid, "http_request_duration_seconds", duration,
                          LabelsJson(rq, status))],
       [table |-> "traces", kind |-> "span",
        row |-> TraceRow(ts, tid, span, rq.method \o " " \o UrlPath(rq), duration,
                         LabelsJson(rq, status))],
       [table |-> "logs", kind |-> "completed",
        row |-> LogRow(ts, tid, "INFO", "Request completed: " \o ToString(status),
                       CompletedJson(rq, status, duration))] >>

\* the success path, were the completion log written before the metrics and the span
SuccessInsertsLogFirst(rq, tid, status, duration, ts, span) ==
    << [table |-> "logs", kind |-> "completed",
        row |-> LogRow(ts, tid, "INFO", "Request completed: " \o ToString(status),
                       CompletedJson(rq, status, duration))],
       [table |-> "metrics", kind |-> "count",
        row |-> MetricRow(ts, tid, "http_requests_total", 1, LabelsJson(rq, status))],
       [table |-> "metrics", kind |-> "duration",
        row |-> MetricRow(ts, tid, "http_request_duration_seconds", duration,
                          LabelsJson(rq, status))],
       [table |-> "traces", kind |-> "span",
        row |-> TraceRow(ts, tid, span, rq.method \o " " \o UrlPath(rq), duration * 1000,
                         LabelsJson(rq, status))] >>

\* lines 93-139: the inserts of the success path, in program order.
\* str(uuid.uuid4()) of line 118 is drawn when the traces insert is reached.
SuccessInserts(rq, tid, status, duration, ts, span) ==
    << [table |-> "metrics", kind |-> "count",
        row |-> MetricRow(ts, tid, "http_requests_total", 1, LabelsJson(rq, status))],
       [table |-> "metrics", kind |-> "duration",
        row |-> MetricRow(ts, tid, "http_request_duration_seconds", duration,
                          LabelsJson(rq, status))],
       [table |-> "traces", kind |-> "span",
        row |-> TraceRow(ts, tid, span, rq.method \o " " \o UrlPath(rq), duration * 1000,
                         LabelsJson(rq, status))],
       [table |-> "logs", kind |-> "completed",
        row |-> LogRow(ts, tid, "INFO", "Request completed: " \o ToString(status),
                       CompletedJson(rq, status, duration))] >>

\* the except branch, were it to count the failed request as well
FailureInsertsCounted(tid, err, duration, ts) ==
    << [table |-> "metrics", kind |-> "count",
        row |-> MetricRow(ts, tid, "http_requests_total", 1, "{}")],
       [table |-> "logs", kind |-> "failed",
        row |-> LogRow(ts, tid, "ERROR", "Request failed: " \o err,
                       FailedJson(err, duration))] >>

\* lines 147-154: the insert of the except branch
FailureInserts(tid, err, duration, ts) ==
    << [table |-> "logs", kind |-> "failed",
        row |-> LogRow(ts, tid, "ERROR", "Request failed: " \o err,
                       FailedJson(err, duration))] >>

\* the calls of `calls` that are made when the one at `failed` raises (0: none does),
\* and those among them the store accepts
Made(calls, failed) == IF failed = 0 THEN calls ELSE SubSeq(calls, 1, failed)
Accepted(calls, failed) == IF failed = 0 THEN calls ELSE SubSeq(calls, 1, failed - 1)

\* the header, were a new id generated for it
WithNewIdHeader(res, tid) == [res EXCEPT !.xtrace = Uuid(uuids + 1)]

\* lines 142-143: the response with the header added
WithTraceHeader(res, tid) == [res EXCEPT !.xtrace = tid]

\* the except branch (lines 145-155) for the exception `exc` caught when the
\* clock showed `caught` (line 146), its row stamped `ts` (line 149), after the
\* try block made the calls `made` of which the store kept `kept`:
\* log it, then `raise` re-raises it; if the insert itself raises (refused = 1),
\* that exception leaves the middleware instead
Except(r, exc, caught, ts, kept, made, refused) ==
    LET inserts == FailureInserts(trace_id[r], exc.error, caught - start_time[r], ts)
        stored == kept \o Accepted(inserts, refused)
    IN  /\ logs' = Inserted(logs, "logs", stored)
        /\ metrics' = Inserted(metrics, "metrics", stored)
        /\ traces' = Inserted(traces, "traces", stored)
        /\ issued' = [issued EXCEPT ![r] = @ \o made \o Calls(Made(inserts, refused), refused)]
        /\ delivered' = [delivered EXCEPT ![r] =
                IF refused = 0 THEN exc
                ELSE Raised(StoreError(inserts[refused].kind \o " log insert"))]

\* call_next returned a response: lines 90-143, and 145-155 if an insert raises.
\* The duration is taken first (line 90); the clock may move on while the rows
\* are built and inserted, and has done so when an insert raises.
ExitReturned(r) ==
    /\ pc[r] = "returned"
    /\ result[r].kind = "response"
    /\ \E e \in Elapsed :
        LET duration == now - start_time[r]
            ts == now + e
            try == SuccessInserts(request[r], trace_id[r], result[r].status, duration, ts,
                                  Uuid(uuids + 1))
        IN  /\ now' = ts
            /\ \E failed \in 0..Len(try) :
                /\ uuids' = IF \E i \in 1..Len(Made(try, failed)) : try[i].kind = "span"
                            THEN uuids + 1 ELSE uuids
                /\ IF failed = 0
                   THEN /\ logs' = Inserted(logs, "logs", try)
                        /\ metrics' = Inserted(metrics, "metrics", try)
                        /\ traces' = Inserted(traces, "traces", try)
                        /\ issued' = [issued EXCEPT ![r] = @ \o Calls(try, 0)]
                        /\ delivered' = [delivered EXCEPT ![r] =
                                            WithTraceHeader(result[r], trace_id[r])]
                   ELSE \E refused \in 0..1 :
                            Except(r, Raised(StoreError(try[failed].kind \o " insert")), ts, ts,
                                   Accepted(try, failed), Calls(Made(try, failed), failed),
                                   refused)
    /\ pc' = [pc EXCEPT ![r] = "done"]
    /\ UNCHANGED startup
    /\ UNCHANGED <<REQUEST_COUNT, REQUEST_DURATION, request, trace_id, start_time,
                   result, queried>>

\* call_next raised an Exception: lines 145-155; the duration is taken first
\* (line 146), the clock may move on until the row is stamped and inserted
ExitRaised(r) ==
    /\ pc[r] = "returned"
    /\ result[r].kind = "exception"
    /\ \E e \in Elapsed, refused \in 0..1 :
        /\ now' = now + e
        /\ Except(r, result[r], now, now + e, <<>>, <<>>, refused)
    /\ pc' = [pc EXCEPT ![r] = "done"]
    /\ UNCHANGED startup
    /\ UNCHANGED <<REQUEST_COUNT, REQUEST_DURATION, uuids, request, trace_id, start_time,
                   result, queried>>

\* ------------------------------------------------------------- specification
Next ==
    \/ startup_event
    \/ \E r \in Req :
        \/ Enter(r)
        \/ not_found(r)
        \/ root(r)
        \/ get_user(r)
        \/ search(r)
        \/ metrics_endpoint(r)
        \/ get_trace_data(r)
        \/ Cancel(r)
        \/ ExitReturned(r)
        \/ ExitRaised(r)

Spec == Init /\ [][Next]_vars

\* what a table of definition `def` may hold when the process is started
Holding(def, name) == IF def = Absent THEN {<<>>} ELSE {<<>>, <<EarlierRow(name)>>}

\* the process is started over a database in any state: each of the three names
\* absent, holding the program's table or holding some other table
InitBoot ==
    /\ schema \in [{"metrics", "logs", "traces"} -> {Absent, Created, Foreign}]
    /\ metrics \in Holding(schema["metrics"], "metrics")
    /\ logs \in Holding(schema["logs"], "logs")
    /\ traces \in Holding(schema["traces"], "traces")
    /\ app = "down"
    /\ commands = <<>>
    /\ starts = 0
    /\ NoRequests

\* the process is started and stopped any number of times
NextBoot ==
    \/ startup_event
    \/ shutdown

SpecBoot == InitBoot /\ [][NextBoot]_vars


\* ------------------------------------------------------------- properties
Entered(r) == trace_id[r] # None
Done(r) == pc[r] = "done"
Finished(r) == pc[r] \in {"returned", "done"}

Count(s, x) == Cardinality({i \in 1..Len(s) : s[i] = x})

\* the inserts request r made of the given kind, and those into the given table
IssuedKind(r, kind) == SelectSeq(issued[r], LAMBDA c: c.kind = kind)
IssuedInto(r, table) == SelectSeq(issued[r], LAMBDA c: c.table = table)

\* C1: every record written to the store while request r is processed, by the
\* middleware or by the endpoint it wraps, carries the trace id the middleware
\* generated for r.
C1_EveryRecordCarriesRequestId ==
    \A r \in Req : \A i \in 1..Len(issued[r]) :
        issued[r][i].ok => issued[r][i].trace_id = trace_id[r]

\* C2: no mixing across requests: a record stored under the trace id issued to
\* request r was written by r and by no other request, whatever X-Trace-ID
\* header the other request carried.
C2_NoMixingAcrossRequests ==
    \A r, q \in Req :
        (r # q /\ Entered(r)) =>
            \A i \in 1..Len(issued[q]) :
                issued[q][i].ok => issued[q][i].trace_id # trace_id[r]

\* what the framework gets from a middleware that only observes: the endpoint's
\* response with X-Trace-ID added, or the very exception call_next raised
Observed(r) ==
    IF result[r].kind = "response" THEN WithTraceHeader(result[r], trace_id[r])
    ELSE result[r]

\* C3: a refused insert of the middleware never changes what the client sees:
\* every finished request ran its endpoint and delivers what the endpoint
\* produced (plus the X-Trace-ID header), on every endpoint.
C3_InsertFailureInvisible ==
    \A r \in Req :
        Done(r) => result[r].kind # None /\ delivered[r] = Observed(r)

\* C4: when the endpoint raises, the middleware issues one ERROR log insert
\* carrying the failure text and the duration, and the exception that leaves
\* the middleware is the one the endpoint raised.
C4_HandlerFailurePropagatesUnchanged ==
    \A r \in Req :
        (Done(r) /\ result[r].kind = "exception") =>
            /\ Len(IssuedKind(r, "failed")) = 1
            /\ delivered[r] = result[r]

\* C5: when the endpoint returns normally, the middleware issues under the
\* request's trace id exactly the two metric inserts, one span insert and one
\* completion log insert, and the response leaves with X-Trace-ID set to that id.
C5_SuccessPathWritesAndHeader ==
    \A r \in Req :
        (Done(r) /\ result[r].kind = "response") =>
            /\ Len(IssuedKind(r, "count")) = 1
            /\ Len(IssuedKind(r, "duration")) = 1
            /\ Len(IssuedKind(r, "span")) = 1
            /\ Len(IssuedKind(r, "completed")) = 1
            /\ delivered[r].kind = "response"
            /\ delivered[r].xtrace = trace_id[r]

\* ERROR rows stored under a trace id
ErrorLogs(id) == SelectSeq(logs, LAMBDA row: row.trace_id = id /\ row.level = "ERROR")

\* C6: when the endpoint raises, the middleware issues exactly one ERROR log
\* insert for the request (stored unless the store refuses it, never twice)
\* and neither issues nor stores any metric or trace record for it.
C6_FailureWritesOneErrorLogOnly ==
    \A r \in Req :
        (Done(r) /\ result[r].kind = "exception") =>
            /\ Len(IssuedKind(r, "failed")) = 1
            /\ Len(ErrorLogs(trace_id[r])) = (IF IssuedKind(r, "failed")[1].ok THEN 1 ELSE 0)
            /\ \A i \in 1..Len(ErrorLogs(trace_id[r])) :
                    ErrorLogs(trace_id[r])[i].message = "Request failed: " \o result[r].error
            /\ IssuedInto(r, "metrics") = <<>>
            /\ IssuedInto(r, "traces") = <<>>
            /\ Select(metrics, trace_id[r]) = <<>>
            /\ Select(traces, trace_id[r]) = <<>>

C6_Witness ==
    \E r \in Req :
        /\ Done(r)
        /\ result[r].kind = "exception"
        /\ Len(ErrorLogs(trace_id[r])) = 1


\* request r's endpoint step in which the store answered all three queries
QueryStep(r) ==
    /\ pc[r] = "awaiting"
    /\ pc'[r] = "returned"
    /\ Len(queried'[r]) = Len(QueryTables)
    /\ \A i \in 1..Len(queried'[r]) : queried'[r][i].ok

\* `data` holds the rows of `table` whose trace_id is `id`, each as often as the
\* table does, in some order, and nothing else
ExactlyRowsOf(data, table, id) ==
    /\ Len(data) = Cardinality({i \in 1..Len(table) : table[i].trace_id = id})
    /\ \A i \in 1..Len(data) : data[i].trace_id = id
    /\ \A i \in 1..Len(table) :
            table[i].trace_id = id => Count(data, table[i]) = Count(table, table[i])

\* C7: round trip: GET /trace/{id} returns exactly the N metric, M log and K
\* trace rows the store holds under id, field values unchanged, and no row of
\* another id.
C7_QueryRoundTrip ==
    [][\A r \in Req :
          QueryStep(r) =>
            /\ result'[r].kind = "response"
            /\ result'[r].body.trace_id = request[r].arg
            /\ ExactlyRowsOf(result'[r].body.metrics, metrics, request[r].arg)
            /\ ExactlyRowsOf(result'[r].body.logs, logs, request[r].arg)
            /\ ExactlyRowsOf(result'[r].body.traces, traces, request[r].arg)]_vars

IsTraceReply(r) ==
    /\ Finished(r)
    /\ request[r].ep = EpTrace
    /\ result[r].kind = "response"
    /\ result[r].status = StatusOK

C7_Witness ==
    \E r \in Req :
        /\ IsTraceReply(r)
        /\ Len(result[r].body.metrics) = 2
        /\ Len(result[r].body.logs) >= 2
        /\ Len(result[r].body.traces) = 1
        /\ \E i \in 1..Len(logs) : logs[i].trace_id # request[r].arg

NoRowsUnder(id) ==
    /\ \A i \in 1..Len(metrics) : metrics[i].trace_id # id
    /\ \A i \in 1..Len(logs) : logs[i].trace_id # id
    /\ \A i \in 1..Len(traces) : traces[i].trace_id # id

EmptyReply(id) ==
    [kind |-> "response", status |-> StatusOK, xtrace |-> NoHeader, error |-> "",
     body |-> [trace_id |-> id, metrics |-> <<>>, logs |-> <<>>, traces |-> <<>>]]

\* C8: GET /trace/{id} for an id without any row answers 200 with three empty
\* sequences; the absence of rows is not an error.
C8_UnknownIdEmpty200 ==
    [][\A r \in Req :
          (QueryStep(r) /\ NoRowsUnder(request[r].arg)) =>
                result'[r] = EmptyReply(request[r].arg)]_vars

C8_Witness ==
    \E r \in Req :
        /\ IsTraceReply(r)
        /\ NoRowsUnder(request[r].arg)
        /\ result[r] = EmptyReply(request[r].arg)

\* the label values of a request served with `status`
LabelValues(rq, status) == <<rq.method, UrlPath(rq), status>>

\* C9: a request the middleware completes is counted in the registry: its
\* http_requests_total series is incremented and its duration observed.
C9_RegistryRecordsRequest ==
    \A r \in Req :
        (Done(r) /\ delivered[r].kind = "response") =>
            /\ LabelValues(request[r], delivered[r].status) \in DOMAIN REQUEST_COUNT
            /\ REQUEST_COUNT[LabelValues(request[r], delivered[r].status)] >= 1
            /\ REQUEST_DURATION.count >= 1

\* request r asked GET /trace/... and its endpoint (or the router) has answered
TraceAnswered(r) ==
    /\ Finished(r)
    /\ request[r].ep = EpTrace
    /\ result[r].kind \in {"response", "exception"}

\* C10 as claimed: a request with a missing or malformed id that gets a response
\* gets a 4xx one, and no query for it reaches the store.
C10_BadIdRejected ==
    \A r \in Req :
        (TraceAnswered(r) /\ result[r].kind = "response"
                          /\ request[r].arg \in {"", Malformed}) =>
            /\ result[r].status \in 400..499
            /\ queried[r] = <<>>

\* C10 amended: a missing id matches no route: 404, no query. Every non-empty
\* id, well-formed or not, is queried as it is and answered 200 when the store
\* answers the three queries.
C10_OnlyMissingIdRejected ==
    \A r \in Req :
        TraceAnswered(r) =>
            IF request[r].arg = ""
            THEN /\ result[r].kind = "response"
                 /\ result[r].status = StatusNotFound
                 /\ queried[r] = <<>>
            ELSE /\ queried[r] # <<>>
                 /\ \A i \in 1..Len(queried[r]) :
                        /\ queried[r][i].trace_id = request[r].arg
                        /\ queried[r][i].table = QueryTables[i]
                 /\ IF \A i \in 1..Len(queried[r]) : queried[r][i].ok
                    THEN /\ Len(queried[r]) = Len(QueryTables)
                         /\ result[r].kind = "response"
                         /\ result[r].status = StatusOK
                    ELSE result[r].kind = "exception"

C10_Witness ==
    \E r, q \in Req :
        /\ TraceAnswered(r) /\ request[r].arg = ""
        /\ result[r].status = StatusNotFound /\ queried[r] = <<>>
        /\ TraceAnswered(q) /\ request[q].arg = Malformed
        /\ result[q].status = StatusOK /\ Len(queried[q]) = Len(QueryTables)

\* the records of `data` are in ascending order of their timestamps
AscendingByTimestamp(data) ==
    \A i, j \in 1..Len(data) : i < j => data[i].timestamp <= data[j].timestamp

\* C11: in every answer of GET /trace/{id}, each of the three sequences is in
\* ascending timestamp order, whatever order the store returned the rows in.
C11_ReplySortedByTimestamp ==
    \A r \in Req :
        IsTraceReply(r) =>
            /\ AscendingByTimestamp(result[r].body.metrics)
            /\ AscendingByTimestamp(result[r].body.logs)
            /\ AscendingByTimestamp(result[r].body.traces)

\* C12: init_tables() is idempotent. A call never alters a table that exists
\* nor its rows, and creates nothing but the program's empty tables; when the
\* server accepts its commands it raises nothing and all three names exist,
\* whatever the database held before; once a call has completed, any further
\* call leaves the database as it is.
C12_InitTablesIdempotent ==
    [][app # "up" =>
          /\ \A t \in DOMAIN schema :
                IF schema[t] = Absent
                THEN Database'[t] \in {Database[t], [def |-> Created, rows |-> <<>>]}
                ELSE Database'[t] = Database[t]
          /\ (\A i \in 1..Len(commands') : commands'[i].ok) =>
                /\ app' = "up"
                /\ Len(commands') = Len(TableNames)
                /\ \A t \in DOMAIN schema : schema'[t] # Absent
          /\ starts >= 1 => Database' = Database]_vars

\* the process has been started twice over a database that held another
\* program's table with a row in it and lacked one of the names
C12_Witness ==
    /\ starts = 2
    /\ app = "up"
    /\ \E t \in DOMAIN schema : schema[t] = Foreign /\ Database[t].rows # <<>>
    /\ \E t \in DOMAIN schema : schema[t] = Created /\ Database[t].rows # <<>>
    /\ schema["traces"] = Created /\ traces = <<>>

\* the kinds of the two terminal logs: completion (INFO) and failure (ERROR)
Terminal == {"completed", "failed"}

\* C13: whenever the middleware issues the completion or error log of a
\* request, that request's start log is its first write and was stored; the
\* start log's timestamp is not later than the terminal log's; and a stored
\* terminal log lies after the start log in the logs table, whatever other
\* requests ran in between.
C13_StartLogBeforeTerminalLog ==
    \A r \in Req : \A j \in 1..Len(issued[r]) :
        issued[r][j].kind \in Terminal =>
            /\ j > 1
            /\ issued[r][1].kind = "start"
            /\ issued[r][1].ok
            /\ issued[r][1].row.timestamp <= issued[r][j].row.timestamp
            /\ issued[r][j].ok =>
                  \E p, q \in 1..Len(logs) :
                      /\ p < q
                      /\ logs[p] = issued[r][1].row
                      /\ logs[q] = issued[r][j].row

\* two requests in flight together, both start logs stored before either
\* terminal log, one request completed and one failed, a clock tick in between
C13_Witness ==
    \E r, q \in Req :
        /\ r # q
        /\ Len(logs) >= 4
        /\ issued[r] # <<>> /\ issued[q] # <<>>
        /\ {logs[1], logs[2]} = {issued[r][1].row, issued[q][1].row}
        /\ \E j \in 1..Len(issued[r]) :
              /\ issued[r][j].kind = "completed" /\ issued[r][j].ok
              /\ issued[r][1].row.timestamp < issued[r][j].row.timestamp
        /\ \E j \in 1..Len(issued[q]) : issued[q][j].kind = "failed" /\ issued[q][j].ok

\* the start log of request r was accepted by the store
StartLogStored(r) ==
    /\ issued[r] # <<>>
    /\ issued[r][1].kind = "start"
    /\ issued[r][1].ok

\* C14: a request whose start log was written and with which the middleware
\* is done, cancelled requests included, has had the insert of a completion
\* or error log attempted.
C14_TerminalLogAttempted ==
    \A r \in Req :
        (Done(r) /\ StartLogStored(r)) =>
            \E j \in 1..Len(issued[r]) : issued[r][j].kind \in Terminal

\* the kinds of the inserts the middleware makes (the endpoints make "endpoint")
MiddlewareKinds == {"start", "count", "duration", "span", "completed", "failed"}

\* C15: the trace id of a request is assigned once, when the middleware is
\* entered, with the start log as the first write and before the endpoint has
\* produced anything; it differs from the ids of the other requests and is
\* never reassigned; every insert the middleware makes for the request and
\* the X-Trace-ID header of its response carry it, with other requests in flight.
C15_TraceIdAssignedOnce ==
    [][\A r \in Req :
          /\ trace_id[r] # None => trace_id'[r] = trace_id[r]
          /\ (trace_id[r] = None /\ trace_id'[r] # None) =>
                /\ pc[r] = "idle" /\ issued[r] = <<>> /\ result[r] = NoResult
                /\ result'[r] = NoResult
                /\ Len(issued'[r]) = 1 /\ issued'[r][1].kind = "start"
                /\ \A q \in Req \ {r} : trace_id[q] # trace_id'[r]
          /\ pc'[r] # "idle" => trace_id'[r] # None
          /\ \A i \in 1..Len(issued'[r]) :
                issued'[r][i].kind \in MiddlewareKinds =>
                    issued'[r][i].trace_id = trace_id'[r]
          /\ delivered'[r].kind = "response" => delivered'[r].xtrace = trace_id'[r]]_vars

\* two requests were in flight together and both got their response, each with
\* its own id in the header and under its four exit inserts
C15_Witness ==
    \E r, q \in Req :
        /\ r # q
        /\ Len(logs) >= 4
        /\ issued[r] # <<>> /\ issued[q] # <<>>
        /\ {logs[1], logs[2]} = {issued[r][1].row, issued[q][1].row}
        /\ delivered[r].kind = "response" /\ delivered[r].xtrace = trace_id[r]
        /\ delivered[q].kind = "response" /\ delivered[q].xtrace = trace_id[q]
        /\ trace_id[r] # trace_id[q]
        /\ Len(SelectSeq(issued[r], LAMBDA c: c.kind \in MiddlewareKinds /\ c.ok)) = 5
        /\ Len(SelectSeq(issued[q], LAMBDA c: c.kind \in MiddlewareKinds /\ c.ok)) = 5

\* every row of `before` is at its place in `after`, field for field
KeepsRows(before, after) ==
    /\ Len(before) <= Len(after)
    /\ \A i \in 1..Len(before) : after[i] = before[i]

\* C16: the three tables are append-only: no step of a startup, a request or
\* a query removes or changes a row that is in metrics, logs or traces.
C16_TablesAppendOnly ==
    [][/\ KeepsRows(metrics, metrics')
       /\ KeepsRows(logs, logs')
       /\ KeepsRows(traces, traces')]_vars

\* the startup ran init_tables() over tables holding rows, requests added rows
\* to all three tables and a query read them; the earlier rows are still there
C16_Witness ==
    /\ app = "up"
    /\ metrics # <<>> /\ metrics[1] = EarlierRow("metrics") /\ Len(metrics) >= 3
    /\ logs # <<>> /\ logs[1] = EarlierRow("logs") /\ Len(logs) >= 3
    /\ traces # <<>> /\ traces[1] = EarlierRow("traces") /\ Len(traces) >= 2
    /\ \E r \in Req : IsTraceReply(r) /\ result[r].body.logs # <<>>

\* the step in which the middleware resumes after call_next and finishes
ExitStep(r) == pc[r] = "returned" /\ pc'[r] = "done"

\* the duration an insert of the middleware records, in seconds: `d` when the
\* insert `c` of request r records exactly that, something else otherwise
Records(r, c, d) ==
    CASE c.kind = "duration" -> c.row.value = d
      [] c.kind = "span" -> c.row.duration_ms = d * 1000
      [] c.kind = "completed" ->
            c.row.extra_fields = CompletedJson(request[r], result[r].status, d)
      [] c.kind = "failed" ->
            \E err \in {result[r].error} \cup {StoreError(k \o " insert") : k \in MiddlewareKinds} :
                c.row.extra_fields = FailedJson(err, d)
      [] OTHER -> TRUE

\* C17 as claimed: every duration the middleware records for a request is the
\* clock at the middleware's exit minus the clock at its entry.
C17_DurationEntryToExit ==
    [][\A r \in Req :
          ExitStep(r) =>
              \A i \in (Len(issued[r]) + 1)..Len(issued'[r]) :
                  Records(r, issued'[r][i], now' - start_time[r])]_vars

\* C17 amended: the durations of the metric, the span and the completion log
\* are the clock when call_next has returned (line 90) minus the clock at
\* entry; the duration of an error log is the clock when the exception is
\* caught (line 146) minus the clock at entry. Each is >= 0, covers the
\* endpoint's run up to its own log, and leaves out what the clock advances
\* after the measurement, until the middleware's exit.
C17_DurationEntryToMeasurement ==
    [][\A r \in Req :
          ExitStep(r) =>
              LET d == now - start_time[r]
                  caught == IF result[r].kind = "exception" THEN now ELSE now'
              IN  /\ 0 <= d
                  /\ now <= now'
                  /\ \A i \in 1..Len(issued[r]) :
                        issued[r][i].kind = "endpoint" =>
                            issued[r][i].row.timestamp - start_time[r] <= d
                  /\ \A i \in (Len(issued[r]) + 1)..Len(issued'[r]) :
                        Records(r, issued'[r][i],
                                IF issued'[r][i].kind = "failed"
                                THEN caught - start_time[r] ELSE d)]_vars

\* request r, the only one so far, got its response; the clock showed 0 at its
\* entry and when call_next returned, and 1 when its rows were stamped: the
\* stored duration is 0
C17_Witness ==
    \E r \in Req :
        /\ \A q \in Req \ {r} : pc[q] = "idle"
        /\ Done(r) /\ delivered[r].kind = "response"
        /\ start_time[r] = 0 /\ now = 1
        /\ \E i \in 1..Len(issued[r]) :
              /\ issued[r][i].kind = "duration" /\ issued[r][i].ok
              /\ issued[r][i].row.value = 0
              /\ issued[r][i].row.timestamp = 1
        /\ \E i \in 1..Len(issued[r]) :
              /\ issued[r][i].kind = "span" /\ issued[r][i].ok
              /\ issued[r][i].row.duration_ms = 0

\* a row of the logs table that is a completion log or an error log
TerminalRow(row) ==
    \/ row.level = "ERROR"
    \/ row.message \in {"Request completed: " \o ToString(status) :
                            status \in {StatusOK, StatusNotFound}}

\* the terminal logs stored under the trace id `id`
TerminalRowsUnder(id) == SelectSeq(logs, LAMBDA row: row.trace_id = id /\ TerminalRow(row))

\* C18: no request gets two terminal logs: at most one of the middleware's
\* terminal inserts for it is accepted, the logs table holds at most one
\* terminal row under its trace id, never a completion log and an error log
\* both, and the error insert follows a completion insert only when the
\* store refused that one.
C18_AtMostOneTerminalLog ==
    \A r \in Req :
        Entered(r) =>
            /\ Len(SelectSeq(issued[r], LAMBDA c: c.kind \in Terminal /\ c.ok)) <= 1
            /\ Len(TerminalRowsUnder(trace_id[r])) <= 1
            /\ \A i, j \in 1..Len(issued[r]) :
                  (issued[r][i].kind = "completed" /\ issued[r][j].kind = "failed") =>
                      i < j /\ ~issued[r][i].ok

\* the completion insert of one request was refused and its error log stored;
\* another request failed in its endpoint and has its error log stored
C18_Witness ==
    \E r, q \in Req :
        /\ r # q
        /\ \E i, j \in 1..Len(issued[r]) :
              /\ issued[r][i].kind = "completed" /\ ~issued[r][i].ok
              /\ issued[r][j].kind = "failed" /\ issued[r][j].ok
        /\ Len(TerminalRowsUnder(trace_id[r])) = 1
        /\ result[q].kind = "exception"
        /\ Len(TerminalRowsUnder(trace_id[q])) = 1

\* C19: in every state of the store, no trace id has both an ERROR log
\* ("Request failed: ...") and a row in metrics or traces.
C19_NoErrorLogWithMetricOrTrace ==
    \A i \in 1..Len(logs) :
        logs[i].level = "ERROR" =>
            /\ \A j \in 1..Len(metrics) : metrics[j].trace_id # logs[i].trace_id
            /\ \A j \in 1..Len(traces) : traces[j].trace_id # logs[i].trace_id

====
